---- MODULE Spec2Model ----
(***************************************************************************)
(* The language/translation gateway of src/translator.py and               *)
(* src/llm_experiment.py: detect the language of a post through one chat   *)
(* call, and translate it through a second one when it is not English.     *)
(*                                                                         *)
(* Python strings are sequences of one-character strings, so that          *)
(* str.strip(), str.lower(), the f-string error markers and str() are      *)
(* computed on the characters.  A Python value is a record [t, s, b]: its  *)
(* type name, its characters when it is a str, its truth value when it is  *)
(* a bool.  What client.chat does on a request is a record                 *)
(* [kind, has_message, content, exc].                                      *)
(***************************************************************************)
EXTENDS Naturals, Sequences, FiniteSets, TLC

VARIABLES
    pc,             \* "idle" before the call of an entry point, "done" after it returned or raised
    entry,          \* the entry point that was called
    post,           \* the argument it was called with
    chat_classify,  \* what client.chat does on the language-identification request
    chat_translate, \* what client.chat does on the translation request
    result,         \* what the entry point returned (or the exception that left it)
    calls           \* the client.chat requests issued, in order

vars == <<pc, entry, post, chat_classify, chat_translate, result, calls>>

\* The longest run of whitespace put on either side of a text.
MaxPad == 1

(***************************************************************************)
(* Characters and literals of the source                                   *)
(***************************************************************************)
UPPER == <<"A", "B", "C", "D", "E", "F", "G", "H", "I", "J", "K", "L", "M", "N", "O", "P", "Q", "R", "S", "T", "U", "V", "W", "X", "Y", "Z">>
LOWER == <<"a", "b", "c", "d", "e", "f", "g", "h", "i", "j", "k", "l", "m", "n", "o", "p", "q", "r", "s", "t", "u", "v", "w", "x", "y", "z">>

\* The characters str.strip() removes (those that occur in the model).
Whitespace == {" ", "\n", "\t", "\r"}

\* "[Invalid language detection output]"
INVALID_LANGUAGE == <<"[", "I", "n", "v", "a", "l", "i", "d", " ", "l", "a", "n", "g", "u", "a", "g", "e", " ", "d", "e", "t", "e", "c", "t", "i", "o", "n", " ", "o", "u", "t", "p", "u", "t", "]">>
\* "[Invalid translation output]"
INVALID_TRANSLATION == <<"[", "I", "n", "v", "a", "l", "i", "d", " ", "t", "r", "a", "n", "s", "l", "a", "t", "i", "o", "n", " ", "o", "u", "t", "p", "u", "t", "]">>
\* the list ["english", "en"]
ENGLISH_NAMES == { <<"e", "n", "g", "l", "i", "s", "h">>, <<"e", "n">> }

(***************************************************************************)
(* Python values                                                           *)
(***************************************************************************)
Str(s) == [t |-> "str", s |-> s, b |-> FALSE]
Bool(b) == [t |-> "bool", s |-> <<>>, b |-> b]
None == [t |-> "NoneType", s |-> <<>>, b |-> FALSE]
\* the dict {"text": "Hello"}, a content that is not a string
DictValue == [t |-> "dict", s |-> <<>>, b |-> FALSE]
\* no value: an attribute or key that is not there
Missing == [t |-> "missing", s |-> <<>>, b |-> FALSE]

\* An exception: type(e).__name__ and str(e).
Exc(name, msg) == [name |-> name, msg |-> msg]
NoExc == Exc(<<>>, <<>>)

\* AttributeError("'<type>' object has no attribute '<attr>'")
AttributeError(type, attr) ==
    Exc(<<"A", "t", "t", "r", "i", "b", "u", "t", "e", "E", "r", "r", "o", "r">>,
        <<"'">> \o type
        \o <<"'", " ", "o", "b", "j", "e", "c", "t", " ", "h", "a", "s", " ", "n", "o", " ", "a", "t", "t", "r", "i", "b", "u", "t", "e", " ", "'">>
        \o attr \o <<"'">>)

NoneTypeName == <<"N", "o", "n", "e", "T", "y", "p", "e">>
DictTypeName == <<"d", "i", "c", "t">>
MessageTypeName == <<"M", "e", "s", "s", "a", "g", "e">>
StripAttr == <<"s", "t", "r", "i", "p">>
ContentAttr == <<"c", "o", "n", "t", "e", "n", "t">>
MessageAttr == <<"m", "e", "s", "s", "a", "g", "e">>

(***************************************************************************)
(* str methods                                                             *)
(***************************************************************************)
RECURSIVE lstrip(_)
lstrip(s) ==
    IF Len(s) > 0 /\ Head(s) \in Whitespace THEN lstrip(Tail(s)) ELSE s

RECURSIVE rstrip(_)
rstrip(s) ==
    IF Len(s) > 0 /\ s[Len(s)] \in Whitespace
    THEN rstrip(SubSeq(s, 1, Len(s) - 1))
    ELSE s

\* str.strip()
strip(s) == rstrip(lstrip(s))

lower_char(c) ==
    IF \E i \in DOMAIN UPPER : UPPER[i] = c
    THEN LOWER[CHOOSE i \in DOMAIN UPPER : UPPER[i] = c]
    ELSE c

\* str.lower()
lower(s) == [i \in DOMAIN s |-> lower_char(s[i])]

\* str(content) of get_language: a str is itself, None is "None", the dict its repr.
str(v) ==
    IF v.t = "str" THEN v.s
    ELSE IF v.t = "NoneType" THEN <<"N", "o", "n", "e">>
    ELSE <<"{", "'", "t", "e", "x", "t", "'", ":", " ", "'", "H", "e", "l", "l", "o", "'", "}">>

\* f"[Error: {type(e).__name__} - {e}]"
ErrorMarker(e) ==
    <<"[", "E", "r", "r", "o", "r", ":", " ">> \o e.name \o <<" ", "-", " ">> \o e.msg \o <<"]">>

(***************************************************************************)
(* What client.chat can do                                                 *)
(***************************************************************************)
\* client.chat raises e
ChatRaises(e) == [kind |-> "raise", has_message |-> FALSE, content |-> Missing, exc |-> e]
\* client.chat returns an object: its .message is None (has_message FALSE), or
\* .message.content is `content` (Missing: the message has no content attribute)
ChatObject(has_message, content) ==
    [kind |-> "object", has_message |-> has_message, content |-> content, exc |-> NoExc]
\* client.chat returns a dict: without the key "message" (has_message FALSE), or with
\* response["message"] a dict whose "content" is `content` (Missing: no such key)
ChatDict(has_message, content) ==
    [kind |-> "dict", has_message |-> has_message, content |-> content, exc |-> NoExc]

(***************************************************************************)
(* src/translator.py                                                       *)
(***************************************************************************)
\* type(v).__name__ of a content that is not a str
type_name(v) == IF v.t = "dict" THEN DictTypeName ELSE NoneTypeName

\* get_translation returning response.message.content as it came, without .strip().
get_translation_no_strip(text, chat) ==
    IF chat.kind = "raise" THEN Str(ErrorMarker(chat.exc))
    ELSE IF chat.kind = "dict"
        THEN Str(ErrorMarker(AttributeError(DictTypeName, MessageAttr)))
    ELSE IF ~chat.has_message
        THEN Str(ErrorMarker(AttributeError(NoneTypeName, ContentAttr)))
    ELSE IF chat.content.t = "missing"
        THEN Str(ErrorMarker(AttributeError(MessageTypeName, ContentAttr)))
    ELSE chat.content

\* Every statement of the function is inside its try, so whatever is raised (by
\* client.chat, by response.message.content or by .strip()) becomes the error marker.
\* `text` only goes into the prompt.
get_translation(text, chat) ==
    IF chat.kind = "raise" THEN Str(ErrorMarker(chat.exc))
    ELSE IF chat.kind = "dict"
        THEN Str(ErrorMarker(AttributeError(DictTypeName, MessageAttr)))
    ELSE IF ~chat.has_message
        THEN Str(ErrorMarker(AttributeError(NoneTypeName, ContentAttr)))
    ELSE IF chat.content.t = "missing"
        THEN Str(ErrorMarker(AttributeError(MessageTypeName, ContentAttr)))
    ELSE IF chat.content.t # "str"
        THEN Str(ErrorMarker(AttributeError(type_name(chat.content), StripAttr)))
    ELSE Str(strip(chat.content.s))

\* response.get("message", {}).get("content", "") for a dict, and
\* getattr(message, "content", "") if message is not None else "" for an object;
\* then str(content).strip().  A raising client.chat becomes the error marker.
get_language(text, chat) ==
    IF chat.kind = "raise" THEN Str(ErrorMarker(chat.exc))
    ELSE LET content ==
                 IF chat.kind = "dict"
                 THEN IF chat.has_message /\ chat.content.t # "missing"
                      THEN chat.content ELSE Str(<<>>)
                 ELSE IF chat.has_message
                      THEN IF chat.content.t # "missing" THEN chat.content ELSE Str(<<>>)
                      ELSE Str(<<>>)
         IN  Str(strip(str(content)))

\* What an entry point did: the pair it returned, or the exception that left it.
Return(flag, text) == [kind |-> "return", fst |-> flag, snd |-> text, exc |-> NoExc]
Raise(e) == [kind |-> "raise", fst |-> Missing, snd |-> Missing, exc |-> e]
NoResult == [kind |-> "none", fst |-> Missing, snd |-> Missing, exc |-> NoExc]

\* An outcome is the result and the client.chat requests issued on the way:
\* get_language issues one ("classify"), get_translation one ("translate").
Outcome(res, reqs) == [result |-> res, calls |-> reqs]

\* A validation that only looks for None: `x is None`.
invalid_output_none_only(x) == x.t = "NoneType"

\* not isinstance(x, str) or len(x.strip()) == 0
invalid_output(x) == x.t # "str" \/ Len(strip(x.s)) = 0

\* The comparison without .lower().
is_english_case_sensitive(lang) == strip(lang) \in ENGLISH_NAMES

\* lang_clean = lang.strip().lower(); is_english = lang_clean in ["english", "en"]
is_english(lang) == lower(strip(lang)) \in ENGLISH_NAMES

\* translate_content returning `post` itself, not the stripped `text`, when English.
translate_content_returns_post(p, cls, trn) ==
    LET text == strip(IF p.t = "NoneType" THEN <<>> ELSE p.s) IN
    IF Len(text) = 0 THEN Outcome(Return(Bool(TRUE), Str(<<>>)), <<>>)
    ELSE
    LET lang == get_language(text, cls) IN
    IF invalid_output(lang)
    THEN Outcome(Return(Bool(FALSE), Str(INVALID_LANGUAGE)), <<"classify">>)
    ELSE IF is_english(lang.s)
    THEN Outcome(Return(Bool(TRUE), p), <<"classify">>)
    ELSE
    LET translation == get_translation(text, trn) IN
    IF invalid_output(translation)
    THEN Outcome(Return(Bool(FALSE), Str(INVALID_TRANSLATION)), <<"classify", "translate">>)
    ELSE Outcome(Return(Bool(FALSE), Str(strip(translation.s))), <<"classify", "translate">>)

\* translate_content with text = post.strip(), without `or ""`: None has no strip,
\* and the statement is outside the try.
translate_content_no_none_guard(p, cls, trn) ==
    IF p.t = "NoneType" THEN Outcome(Raise(AttributeError(NoneTypeName, StripAttr)), <<>>)
    ELSE
    LET text == strip(p.s) IN
    IF Len(text) = 0 THEN Outcome(Return(Bool(TRUE), Str(<<>>)), <<>>)
    ELSE
    LET lang == get_language(text, cls) IN
    IF invalid_output(lang)
    THEN Outcome(Return(Bool(FALSE), Str(INVALID_LANGUAGE)), <<"classify">>)
    ELSE IF is_english(lang.s)
    THEN Outcome(Return(Bool(TRUE), Str(text)), <<"classify">>)
    ELSE
    LET translation == get_translation(text, trn) IN
    IF invalid_output(translation)
    THEN Outcome(Return(Bool(FALSE), Str(INVALID_TRANSLATION)), <<"classify", "translate">>)
    ELSE Outcome(Return(Bool(FALSE), Str(strip(translation.s))), <<"classify", "translate">>)

\* The second definition of translate_content, the one the module exports.  Nothing
\* in its try raises, since both helpers catch everything; (post or "").strip() is
\* outside the try.
translate_content(p, cls, trn) ==
    LET text == strip(IF p.t = "NoneType" THEN <<>> ELSE p.s) IN
    IF Len(text) = 0 THEN Outcome(Return(Bool(TRUE), Str(<<>>)), <<>>)
    ELSE
    LET lang == get_language(text, cls) IN
    IF invalid_output(lang)
    THEN Outcome(Return(Bool(FALSE), Str(INVALID_LANGUAGE)), <<"classify">>)
    ELSE IF is_english(lang.s)
    THEN Outcome(Return(Bool(TRUE), Str(text)), <<"classify">>)
    ELSE
    LET translation == get_translation(text, trn) IN
    IF invalid_output(translation)
    THEN Outcome(Return(Bool(FALSE), Str(INVALID_TRANSLATION)), <<"classify", "translate">>)
    ELSE Outcome(Return(Bool(FALSE), Str(strip(translation.s))), <<"classify", "translate">>)

\* return translate_content(post)
query_llm_robust(p, cls, trn) == translate_content(p, cls, trn)

(***************************************************************************)
(* src/llm_experiment.py                                                   *)
(***************************************************************************)
llm_experiment_get_translation(p, chat) ==
    IF chat.kind = "raise" THEN Str(ErrorMarker(chat.exc))
    ELSE IF chat.kind = "dict"
        THEN Str(ErrorMarker(AttributeError(DictTypeName, MessageAttr)))
    ELSE IF ~chat.has_message
        THEN Str(ErrorMarker(AttributeError(NoneTypeName, ContentAttr)))
    ELSE IF chat.content.t = "missing"
        THEN Str(ErrorMarker(AttributeError(MessageTypeName, ContentAttr)))
    ELSE IF chat.content.t # "str"
        THEN Str(ErrorMarker(AttributeError(type_name(chat.content), StripAttr)))
    ELSE Str(strip(chat.content.s))

\* getattr(getattr(response, "message", None), "content", "") for an object
llm_experiment_get_language(p, chat) ==
    IF chat.kind = "raise" THEN Str(ErrorMarker(chat.exc))
    ELSE LET content ==
                 IF chat.has_message /\ chat.content.t # "missing"
                 THEN chat.content ELSE Str(<<>>)
         IN  Str(strip(str(content)))

\* No test of the input before the first request; post.strip() of the English branch
\* is inside the try, so on None it becomes the error marker.
llm_experiment_query_llm_robust(p, cls, trn) ==
    LET lang == llm_experiment_get_language(p, cls) IN
    IF lang.t # "str" \/ Len(strip(lang.s)) = 0
    THEN Outcome(Return(Bool(FALSE), Str(INVALID_LANGUAGE)), <<"classify">>)
    ELSE IF lower(strip(lang.s)) \in ENGLISH_NAMES
    THEN IF p.t = "str"
         THEN Outcome(Return(Bool(TRUE), Str(strip(p.s))), <<"classify">>)
         ELSE Outcome(Return(Bool(FALSE),
                             Str(ErrorMarker(AttributeError(NoneTypeName, StripAttr)))),
                      <<"classify">>)
    ELSE
    LET translation == llm_experiment_get_translation(p, trn) IN
    IF translation.t # "str" \/ Len(strip(translation.s)) = 0
    THEN Outcome(Return(Bool(FALSE), Str(INVALID_TRANSLATION)), <<"classify", "translate">>)
    ELSE Outcome(Return(Bool(FALSE), Str(strip(translation.s))), <<"classify", "translate">>)

(***************************************************************************)
(* Inputs                                                                  *)
(***************************************************************************)
\* A run of k whitespace characters.
Pad(k) == SubSeq(<<" ", "\n", "\t", "\r", " ", "\n">>, 1, k)

\* The texts `bases` with up to MaxPad whitespace characters on either side.
Padded(bases) == { Pad(l) \o b \o Pad(r) : l \in 0..MaxPad, r \in 0..MaxPad, b \in bases }

\* "", "Hola", "[Error: e]" (a post that looks like a marker), and None
Posts ==
    { Str(s) : s \in Padded({ <<>>, <<"H", "o", "l", "a">>,
                              <<"[", "E", "r", "r", "o", "r", ":", " ", "e", "]">> }) }
    \cup { None }

\* "", "en", "EN", "English", "eNgLiSh", "Spanish", "Not English"
LanguageAnswers ==
    Padded({ <<>>, <<"e", "n">>, <<"E", "N">>,
             <<"E", "n", "g", "l", "i", "s", "h">>,
             <<"e", "N", "g", "L", "i", "S", "h">>,
             <<"S", "p", "a", "n", "i", "s", "h">>,
             <<"N", "o", "t", " ", "E", "n", "g", "l", "i", "s", "h">> })

\* "", "Hello"
TranslationAnswers == Padded({ <<>>, <<"H", "e", "l", "l", "o">> })

\* Exception("Network error") and ConnectionError()
Raised ==
    { Exc(<<"E", "x", "c", "e", "p", "t", "i", "o", "n">>,
          <<"N", "e", "t", "w", "o", "r", "k", " ", "e", "r", "r", "o", "r">>),
      Exc(<<"C", "o", "n", "n", "e", "c", "t", "i", "o", "n", "E", "r", "r", "o", "r">>, <<>>) }

Contents(answers) == { Str(s) : s \in answers } \cup { None, DictValue, Missing }

\* Everything client.chat can do when the model would answer one of `answers`.
ChatBehaviours(answers) ==
    { ChatObject(TRUE, c) : c \in Contents(answers) }
    \cup { ChatDict(TRUE, c) : c \in Contents(answers) }
    \cup { ChatObject(FALSE, Missing), ChatDict(FALSE, Missing) }
    \cup { ChatRaises(e) : e \in Raised }

(***************************************************************************)
(* The state machine: one call of one entry point                          *)
(***************************************************************************)
Init ==
    /\ pc = "idle"
    /\ entry = "none"
    /\ post = None
    /\ chat_classify = ChatObject(FALSE, Missing)
    /\ chat_translate = ChatObject(FALSE, Missing)
    /\ result = NoResult
    /\ calls = <<>>

Finish(name, p, cls, trn, out) ==
    /\ pc' = "done"
    /\ entry' = name
    /\ post' = p
    /\ chat_classify' = cls
    /\ chat_translate' = trn
    /\ result' = out.result
    /\ calls' = out.calls

\* translator.translate_content(post)
TranslateContent ==
    /\ pc = "idle"
    /\ \E p \in Posts, cls \in ChatBehaviours(LanguageAnswers),
          trn \in ChatBehaviours(TranslationAnswers) :
          Finish("translator.translate_content", p, cls, trn, translate_content(p, cls, trn))

\* translator.query_llm_robust(post)
QueryLlmRobust ==
    /\ pc = "idle"
    /\ \E p \in Posts, cls \in ChatBehaviours(LanguageAnswers),
          trn \in ChatBehaviours(TranslationAnswers) :
          Finish("translator.query_llm_robust", p, cls, trn, query_llm_robust(p, cls, trn))

\* llm_experiment.query_llm_robust(post)
ExperimentQueryLlmRobust ==
    /\ pc = "idle"
    /\ \E p \in Posts, cls \in ChatBehaviours(LanguageAnswers),
          trn \in ChatBehaviours(TranslationAnswers) :
          Finish("llm_experiment.query_llm_robust", p, cls, trn,
                 llm_experiment_query_llm_robust(p, cls, trn))

Next == TranslateContent \/ QueryLlmRobust \/ ExperimentQueryLlmRobust

Spec == Init /\ [][Next]_vars

(***************************************************************************)
(* Vocabulary of the properties, stated on the characters and not through  *)
(* strip and lower                                                         *)
(***************************************************************************)
Range(q) == { q[i] : i \in DOMAIN q }

\* s is empty or consists only of whitespace
IsBlankText(s) == \A i \in DOMAIN s : s[i] \in Whitespace

\* s from its first to its last character that is not whitespace
TrimOf(s) ==
    IF IsBlankText(s) THEN <<>>
    ELSE LET solid == { i \in DOMAIN s : s[i] \notin Whitespace }
             first == CHOOSE i \in solid : \A j \in solid : i <= j
             last  == CHOOSE i \in solid : \A j \in solid : j <= i
         IN  SubSeq(s, first, last)

\* s is w up to the case of its letters (w is in lower case)
SameIgnoringCase(s, w) ==
    /\ Len(s) = Len(w)
    /\ \A i \in DOMAIN w :
          s[i] = w[i] \/ \E k \in DOMAIN LOWER : LOWER[k] = w[i] /\ UPPER[k] = s[i]

\* s is "English" or "en" in any letter case
NamesEnglish(s) == \E w \in ENGLISH_NAMES : SameIgnoringCase(s, w)

StartsWith(s, prefix) ==
    Len(s) >= Len(prefix) /\ SubSeq(s, 1, Len(prefix)) = prefix

ErrorPrefix == <<"[", "E", "r", "r", "o", "r", ":">>
InvalidPrefix == <<"[", "I", "n", "v", "a", "l", "i", "d">>

Done == pc = "done"
InTranslator == entry \in {"translator.translate_content", "translator.query_llm_robust"}
BlankPost == post.t = "str" /\ IsBlankText(post.s)
NonBlankPost == post.t = "str" /\ ~IsBlankText(post.s)

\* client.chat answered with a message whose content is a string
Answered(chat) == chat.kind \in {"object", "dict"} /\ chat.has_message /\ chat.content.t = "str"

\* the classification request was answered "English" or "en", in any case
ClassifiedEnglish ==
    Answered(chat_classify) /\ NamesEnglish(TrimOf(chat_classify.content.s))

\* the classification request was answered with a language name other than English
ClassifiedOther ==
    /\ Answered(chat_classify)
    /\ ~IsBlankText(chat_classify.content.s)
    /\ ~NamesEnglish(TrimOf(chat_classify.content.s))

\* what the helpers of the called module returned (or would return)
Lang ==
    IF InTranslator THEN get_language(post, chat_classify)
    ELSE llm_experiment_get_language(post, chat_classify)
Translation ==
    IF InTranslator THEN get_translation(post, chat_translate)
    ELSE llm_experiment_get_translation(post, chat_translate)

Returned(flag, text) == result = Return(Bool(flag), Str(text))

(***************************************************************************)
(* Properties                                                              *)
(***************************************************************************)

\* C1: for every empty or whitespace-only input, every entry point returns
\* exactly (True, ""), whatever the chat service would do.
C1_BlankInputReturnsTrueEmpty ==
    (Done /\ BlankPost) => Returned(TRUE, <<>>)

\* C2: if a chat call that was made raised (the classification call or the
\* translation call), the returned boolean is False and the returned text
\* begins with "[Error:", and no exception leaves the entry point.
C2_RaisedCallGivesErrorMarker ==
    (/\ Done
     /\ \/ "classify" \in Range(calls) /\ chat_classify.kind = "raise"
        \/ "translate" \in Range(calls) /\ chat_translate.kind = "raise")
    => /\ result.kind = "return"
       /\ result.fst = Bool(FALSE)
       /\ result.snd.t = "str"
       /\ StartsWith(result.snd.s, ErrorPrefix)

C5_EmptyClassificationIsInvalid ==
    (/\ Done /\ NonBlankPost
     /\ Answered(chat_classify) /\ IsBlankText(chat_classify.content.s))
    => /\ Returned(FALSE, INVALID_LANGUAGE)
       /\ calls = <<"classify">>

\* A whitespace-only classification, with a translation "Hello" at hand.
C5_Witness ==
    /\ Done /\ NonBlankPost
    /\ Answered(chat_classify)
    /\ IsBlankText(chat_classify.content.s) /\ Len(chat_classify.content.s) > 0
    /\ Answered(chat_translate) /\ ~IsBlankText(chat_translate.content.s)
    /\ Returned(FALSE, INVALID_LANGUAGE)

\* C6: if the classification response holds no non-empty string (its content is
\* None or a non-string object, or it has no message or no content), the result
\* is (False, "[Invalid language detection output]").
C6_NonStringClassificationIsInvalid ==
    (/\ Done /\ NonBlankPost
     /\ chat_classify.kind \in {"object", "dict"}
     /\ \/ ~chat_classify.has_message
        \/ chat_classify.content.t \in {"NoneType", "dict", "missing"})
    => Returned(FALSE, INVALID_LANGUAGE)

\* C7: when the input is classified as non-English and the content of the
\* translation response is empty, whitespace-only, None or a non-string object,
\* the result is exactly (False, "[Invalid translation output]").
C7_BadTranslationIsInvalid ==
    (/\ Done /\ NonBlankPost /\ ClassifiedOther
     /\ chat_translate.kind = "object" /\ chat_translate.has_message
     /\ \/ chat_translate.content.t \in {"NoneType", "dict"}
        \/ chat_translate.content.t = "str" /\ IsBlankText(chat_translate.content.s))
    => Returned(FALSE, INVALID_TRANSLATION)

\* C8: for every input and every behaviour of the chat service on either call,
\* the entry point returns a pair of a bool and a str; it never raises.
C8_AlwaysReturnsBoolStr ==
    Done => /\ result.kind = "return"
            /\ result.fst.t = "bool"
            /\ result.snd.t = "str"

\* The classification call raised, the translation response had content None, and
\* a pair of a bool and a str came back all the same.
C8_Witness ==
    /\ Done /\ NonBlankPost
    /\ chat_classify.kind = "raise"
    /\ chat_translate.kind = "object" /\ chat_translate.has_message
    /\ chat_translate.content = None
    /\ calls = <<"classify", "translate">>
    /\ result.kind = "return" /\ result.fst.t = "bool" /\ result.snd.t = "str"

\* C9: at most one classification request, then at most one translation request;
\* the translation request is issued only for a non-blank input whose
\* classification request completed without raising, with a non-empty answer
\* other than English.
C9_TranslationOnlyAfterNonEnglish ==
    Done =>
        /\ calls \in { <<>>, <<"classify">>, <<"classify", "translate">> }
        /\ "translate" \in Range(calls) =>
              /\ NonBlankPost
              /\ chat_classify.kind # "raise"
              /\ Len(Lang.s) > 0
              /\ ~NamesEnglish(Lang.s)

\* C10: for a text input, the returned boolean is True exactly when the input is
\* blank (translate_content and its wrapper) or the classifier answered
\* "English" or "en" up to case and surrounding whitespace; and a returned text
\* that is an "[Error:" or "[Invalid" marker made by the gateway (not the echoed
\* input) comes with False.
C10_TrueIffBlankOrEnglish ==
    (Done /\ post.t = "str") =>
        /\ result.kind = "return"
        /\ result.fst = Bool(TRUE) <=>
              \/ InTranslator /\ IsBlankText(post.s)
              \/ (InTranslator => ~IsBlankText(post.s)) /\ ClassifiedEnglish
        /\ (/\ \/ StartsWith(result.snd.s, ErrorPrefix)
                \/ StartsWith(result.snd.s, InvalidPrefix)
             /\ result.snd.s # TrimOf(post.s))
            => result.fst = Bool(FALSE)

\* An answer that merely contains the word English gave False.
C10_Witness ==
    /\ Done /\ NonBlankPost
    /\ Answered(chat_classify)
    /\ TrimOf(chat_classify.content.s) = <<"N", "o", "t", " ", "E", "n", "g", "l", "i", "s", "h">>
    /\ result.kind = "return"
    /\ result.fst = Bool(FALSE)

====
